---------------------------- MODULE Spec2Model ----------------------------
(***************************************************************************)
(* CDC-ECM Ethernet over USB (usbarmory/imx-usbnet): the NIC's endpoint    *)
(* functions ECMRx (frame reassembly, host to device) and ECMTx (frame     *)
(* transmission, device to host) of cdc_ecm.go, driven by a USB host that  *)
(* sends bulk OUT transfers and a network stack that queues packets on the *)
(* link channel endpoint.                                                  *)
(*                                                                         *)
(* Byte slices are sequences of 0..255.  The state is the NIC after a      *)
(* successful Init(): its MAC addresses, its maxPacketSize, its buf, and   *)
(* the link endpoint's outbound queue.  rxlog, injected, enqlog and txlog  *)
(* are histories (what the host sent, what InjectInbound received, what    *)
(* the stack wrote, what ECMTx returned); the code does not read them.     *)
(***************************************************************************)
EXTENDS Integers, Sequences, FiniteSets

VARIABLES
    HostMAC,        \* NIC.HostMAC
    DeviceMAC,      \* NIC.DeviceMAC
    maxPacketSize,  \* NIC.maxPacketSize
    buf,            \* NIC.buf
    panicked,       \* a slice expression of ECMRx went out of range
    outq,           \* the link endpoint's outbound queue (NIC.Link)
    rxlog,          \* one record per ECMRx call
    injected,       \* the packets handed to Link.InjectInbound, in order
    enqlog,         \* the packets the stack queued on the link, in order
    txlog,          \* one record per ECMTx call
    rxLastErr,      \* the lastErr argument of the latest ECMRx call
    txLastErr,      \* the lastErr argument of the latest ECMTx call
    Link,           \* NIC.Link is not nil
    handlers,       \* NIC.Rx, NIC.Tx, NIC.Control
    device,         \* the interfaces of NIC.Device.Configurations[0]
    iface,          \* the Interface: NICID, NIC, Stack, Link, the stack's NICs
    err,            \* the error the construction call returned
    pkgMaxPacketSize, \* the package variable MaxPacketSize
    rxcall,         \* the ECMRx call in progress: where it is, and its out
    txcall,         \* the ECMTx call in progress: where it is, and its pkt
    pc              \* "new", "built" (NIC fields set), "done" (NIC.Init
                    \* returned), "preset" (Interface.NIC set by the caller),
                    \* "added" (Interface.Add returned, the NIC is its own)
                    \* or "kept" (it returned, the NIC is the caller's)

vars == <<HostMAC, DeviceMAC, maxPacketSize, buf, panicked, outq,
          rxlog, injected, enqlog, txlog, rxLastErr, txLastErr,
          Link, handlers, device, iface, err, pkgMaxPacketSize,
          rxcall, txcall, pc>>

rxvars == <<buf, panicked, rxlog, injected>>
txvars == <<outq, enqlog, txlog>>
cfgvars == <<HostMAC, DeviceMAC, maxPacketSize>>
ctorvars == <<Link, handlers, device, iface, err, pc>>
callvars == <<rxcall, txcall>>

(***************************************************************************)
(* Bounds of the model.                                                    *)
(***************************************************************************)
\* ECMRx calls, packets written by the stack and ECMTx polls of an empty
\* queue, together.
MaxOps == 3

(***************************************************************************)
(* Program constants.                                                      *)
(***************************************************************************)
\* len(hdr): the Ethernet header, buf[0:14]
HdrLen == 14
\* var MaxPacketSize uint16 = 512
MaxPacketSize == 512
\* var MTU uint32 = 1500
MTU == 1500
\* channel.New(256, MTU, linkAddr)
QueueSize == 256

\* MaxPacketSize is an exported uint16 variable: the value addDataInterfaces
\* copies into the NIC is whatever the application left there.  512 is the
\* default; 16 stands for the other sizes a bulk endpoint may have that
\* hold a header; 8 and 0 are values below the header size.
MaxPacketSizes == {0, 8, 16, MaxPacketSize}

\* tcpip.NetworkProtocolNumber is a uint32: ipv4.ProtocolNumber (0x0800) and
\* a number that does not fit 16 bits (0x10800).
ProtocolIPv4 == 2048
ProtocolWide == 67584

(***************************************************************************)
(* Byte slices.                                                            *)
(***************************************************************************)
\* binary.BigEndian.Uint16(b)
BigEndianUint16(b) == b[1] * 256 + b[2]

\* binary.BigEndian.PutUint16(b, v), v a uint16
BigEndianPutUint16(v) == <<v \div 256, v % 256>>

\* The conversion to 16 bits saturating instead of truncating.
Uint16_Saturate(x) == IF x > 65535 THEN 65535 ELSE x

\* uint16(x) of a wider unsigned integer
Uint16(x) == x % 65536

RECURSIVE Flatten_Reversed(_)
\* the slices appended last to first
Flatten_Reversed(segs) ==
    IF segs = <<>> THEN <<>> ELSE Flatten_Reversed(Tail(segs)) \o Head(segs)

RECURSIVE Flatten(_)
\* the slices of a packet appended in order
Flatten(segs) ==
    IF segs = <<>> THEN <<>> ELSE Head(segs) \o Flatten(Tail(segs))

(***************************************************************************)
(* ECMRx: endpoint 1 OUT.  b is eth.buf on entry, out the transfer, mps    *)
(* eth.maxPacketSize.  The result is eth.buf on return, the packets handed *)
(* to InjectInbound (none or one), whether the call took the early return  *)
(* of the short-chunk rule, and whether a slice expression panicked.       *)
(*   buf[0:14] and buf[12:14] are in range while 14 <= cap(buf);           *)
(*   buf[14:] is in range only while 14 <= len(buf).                       *)
(***************************************************************************)
\* The packet with the protocol number read as little-endian.
RxPacket_LittleEndian(nb) ==
    [hdr |-> SubSeq(nb, 1, HdrLen),
     proto |-> nb[13] + 256 * nb[14],
     payload |-> SubSeq(nb, HdrLen + 1, Len(nb))]

\* The packet with the whole buffer as payload, header included.
RxPacket_WholePayload(nb) ==
    [hdr |-> SubSeq(nb, 1, HdrLen),
     proto |-> 256 * nb[13] + nb[14],
     payload |-> nb]

\* hdr := buf[0:14]; proto := BigEndian.Uint16(buf[12:14]); payload := buf[14:]
\* and the packet built from them, for a buf of at least 14 bytes.
RxPacket(nb) ==
    [hdr |-> SubSeq(nb, 1, HdrLen),
     proto |-> BigEndianUint16(SubSeq(nb, 13, 14)),
     payload |-> SubSeq(nb, HdrLen + 1, Len(nb))]

\* The return that waits for more data, with the buffer thrown away.
RxPending_Discard(nb) ==
    [buf |-> <<>>, inject |-> <<>>, dropped |-> FALSE, panic |-> FALSE]

\* What a call returns with: the early return, the return that waits for
\* more data, the panic of an out-of-range slice, the dispatch.
RxDropped(b) ==
    [buf |-> b, inject |-> <<>>, dropped |-> TRUE, panic |-> FALSE]
RxPending(nb) ==
    [buf |-> nb, inject |-> <<>>, dropped |-> FALSE, panic |-> FALSE]
RxPanic(nb) ==
    [buf |-> nb, inject |-> <<>>, dropped |-> FALSE, panic |-> TRUE]
RxDispatched(nb, after) ==
    [buf |-> after, inject |-> <<RxPacket(nb)>>, dropped |-> FALSE,
     panic |-> FALSE]

\* ECMRx with the short-chunk rule applied whatever the buffer holds.
ECMRx_DropAnyShort(b, out, mps) ==
    IF Len(out) < HdrLen THEN RxDropped(b)
    ELSE LET nb == b \o out IN
         IF Len(out) = mps THEN RxPending(nb)
         ELSE IF Len(nb) < HdrLen THEN RxPanic(nb)
         ELSE RxDispatched(nb, <<>>)

\* ECMRx keeping a short initial chunk in the buffer instead of dropping it.
ECMRx_KeepShort(b, out, mps) ==
    IF Len(b) = 0 /\ Len(out) < HdrLen THEN RxPending(b \o out)
    ELSE LET nb == b \o out IN
         IF Len(out) = mps THEN RxPending(nb)
         ELSE IF Len(nb) < HdrLen THEN RxPanic(nb)
         ELSE RxDispatched(nb, <<>>)

\* ECMRx without the short-chunk rule.
ECMRx_NoDropRule(b, out, mps) ==
    LET nb == b \o out IN
    IF Len(out) = mps THEN RxPending(nb)
    ELSE IF Len(nb) < HdrLen THEN RxPanic(nb)
    ELSE RxDispatched(nb, <<>>)

\* ECMRx with the short-chunk rule off by one (len(out) < 13).
ECMRx_Drop13(b, out, mps) ==
    IF Len(b) = 0 /\ Len(out) < HdrLen - 1 THEN RxDropped(b)
    ELSE LET nb == b \o out IN
         IF Len(out) = mps THEN RxPending(nb)
         ELSE IF Len(nb) < HdrLen THEN RxPanic(nb)
         ELSE RxDispatched(nb, <<>>)

\* ECMRx waiting for more data after a short transfer instead of a full one.
ECMRx_InvertedTest(b, out, mps) ==
    IF Len(b) = 0 /\ Len(out) < HdrLen THEN RxDropped(b)
    ELSE LET nb == b \o out IN
         IF Len(out) # mps THEN RxPending(nb)
         ELSE IF Len(nb) < HdrLen THEN RxPanic(nb)
         ELSE RxDispatched(nb, <<>>)

\* ECMRx that keeps the buffer after the dispatch.
ECMRx_NoReset(b, out, mps) ==
    IF Len(b) = 0 /\ Len(out) < HdrLen THEN RxDropped(b)
    ELSE LET nb == b \o out IN
         IF Len(out) = mps THEN RxPending(nb)
         ELSE IF Len(nb) < HdrLen THEN RxPanic(nb)
         ELSE RxDispatched(nb, nb)

\* ECMRx dropping a zero-length transfer whatever the buffer holds.
ECMRx_DropZeroLength(b, out, mps) ==
    IF Len(out) = 0 \/ (Len(b) = 0 /\ Len(out) < HdrLen) THEN RxDropped(b)
    ELSE LET nb == b \o out IN
         IF Len(out) = mps THEN RxPending(nb)
         ELSE IF Len(nb) < HdrLen THEN RxPanic(nb)
         ELSE RxDispatched(nb, <<>>)

\* ECMRx waiting for more data after any transfer of maxPacketSize or more.
ECMRx_AtLeastTest(b, out, mps) ==
    IF Len(b) = 0 /\ Len(out) < HdrLen THEN RxDropped(b)
    ELSE LET nb == b \o out IN
         IF Len(out) >= mps THEN RxPending(nb)
         ELSE IF Len(nb) < HdrLen THEN RxPanic(nb)
         ELSE RxDispatched(nb, <<>>)

\* ECMRx replacing the buffer with the transfer instead of appending to it.
ECMRx_Assign(b, out, mps) ==
    IF Len(b) = 0 /\ Len(out) < HdrLen THEN RxDropped(b)
    ELSE LET nb == out IN
         IF Len(out) = mps THEN RxPending(nb)
         ELSE IF Len(nb) < HdrLen THEN RxPanic(nb)
         ELSE RxDispatched(nb, <<>>)

\* ECMRx injecting only the frames addressed to the device.
ECMRx_FilterDeviceMAC(b, out, mps) ==
    IF Len(b) = 0 /\ Len(out) < HdrLen THEN RxDropped(b)
    ELSE LET nb == b \o out IN
         IF Len(out) = mps THEN RxPending(nb)
         ELSE IF Len(nb) < HdrLen THEN RxPanic(nb)
         ELSE IF SubSeq(nb, 1, 6) # DeviceMAC THEN RxPending(<<>>)
         ELSE RxDispatched(nb, <<>>)

ECMRx(b, out, mps) ==
    IF Len(b) = 0 /\ Len(out) < HdrLen THEN RxDropped(b)
    ELSE LET nb == b \o out IN
         IF Len(out) = mps THEN RxPending(nb)
         ELSE IF Len(nb) < HdrLen THEN RxPanic(nb)
         ELSE RxDispatched(nb, <<>>)

\* The error values of a transfer: nil, or the error the driver reports.
NoError == "nil"
ErrTransfer == "transfer failed"
Errors == {NoError, ErrTransfer}

\* ECMRx handing its lastErr argument back as its error.
ECMRxReturn_Propagate(lastErr) == [in |-> <<>>, err |-> lastErr]

\* The values ECMRx returns: `in` and `err` are named results that no
\* statement assigns.
ECMRxReturn(lastErr) == [in |-> <<>>, err |-> NoError]

\* The values ECMTx returns: the frame built, and `err`, which no statement
\* assigns.
ECMTxReturn(in, lastErr) == [in |-> in, err |-> NoError]

(***************************************************************************)
(* ECMTx: endpoint 1 IN.  q is the link's outbound queue; Link.Read() takes*)
(* its head without blocking, or returns nil.  The result is the bytes     *)
(* returned (in), the packet Read returned (none or one) and the queue     *)
(* afterwards.                                                             *)
(***************************************************************************)
\* ECMTx with the two addresses in the other order.
ECMTx_SwapMAC(q, host, dev) ==
    IF q = <<>>
    THEN [in |-> <<>>, read |-> <<>>, q |-> q]
    ELSE LET pkt == Head(q)
             proto == BigEndianPutUint16(Uint16(pkt.proto))
         IN  [in |-> dev \o host \o proto \o Flatten(pkt.segs),
              read |-> <<pkt>>, q |-> Tail(q)]

\* ECMTx reading the newest packet of the queue instead of the oldest.
ECMTx_Newest(q, host, dev) ==
    IF q = <<>>
    THEN [in |-> <<>>, read |-> <<>>, q |-> q]
    ELSE LET pkt == q[Len(q)]
             proto == BigEndianPutUint16(Uint16(pkt.proto))
         IN  [in |-> host \o dev \o proto \o Flatten(pkt.segs),
              read |-> <<pkt>>, q |-> SubSeq(q, 1, Len(q) - 1)]

\* ECMTx returning nothing for a packet without payload.
ECMTx_SkipEmpty(q, host, dev) ==
    IF q = <<>>
    THEN [in |-> <<>>, read |-> <<>>, q |-> q]
    ELSE LET pkt == Head(q)
             proto == BigEndianPutUint16(Uint16(pkt.proto))
         IN  [in |-> IF pkt.segs = <<>> THEN <<>>
                     ELSE host \o dev \o proto \o Flatten(pkt.segs),
              read |-> <<pkt>>, q |-> Tail(q)]

\* ECMTx reading the queue until it finds it empty, returning the first frame.
ECMTx_Drains(q, host, dev) ==
    IF q = <<>>
    THEN [in |-> <<>>, read |-> <<>>, q |-> q]
    ELSE LET pkt == Head(q)
             proto == BigEndianPutUint16(Uint16(pkt.proto))
         IN  [in |-> host \o dev \o proto \o Flatten(pkt.segs),
              read |-> <<pkt>>, q |-> <<>>]

ECMTx(q, host, dev) ==
    IF q = <<>>
    THEN [in |-> <<>>, read |-> <<>>, q |-> q]
    ELSE LET pkt == Head(q)
             proto == BigEndianPutUint16(Uint16(pkt.proto))
         IN  [in |-> host \o dev \o proto \o Flatten(pkt.segs),
              read |-> <<pkt>>, q |-> Tail(q)]

(***************************************************************************)
(* The environment: the host's transfers and the stack's packets.          *)
(***************************************************************************)
\* The n-th transfer the host sends, of length len.  Its bytes differ from
\* call to call and from place to place.
Chunk(n, len) == [i \in 1..len |-> (53 * n + 7 * i) % 256]

\* The transfer lengths the host tries: around the header size and around
\* the maximum packet size.
ChunkLens(mps) ==
    {0, 1, HdrLen - 1, HdrLen, HdrLen + 1}
        \cup {l \in {mps - 1, mps, mps + 1} : l >= 0}

\* The payload of the n-th packet the stack writes, of length len.
PayloadBytes(n, len) == [i \in 1..len |-> (101 * n + 3 * i) % 256]

\* Its slices (PacketBuffer.AsSlices): none for an empty packet, two for the
\* 3-byte one, one otherwise.
Slices(p) ==
    IF Len(p) = 0 THEN <<>>
    ELSE IF Len(p) = 3 THEN <<SubSeq(p, 1, 1), SubSeq(p, 2, 3)>>
    ELSE <<p>>

\* The payload lengths the stack writes: empty, short, and the one that makes
\* the frame exactly one maximum packet long.
PayloadLens(mps) == {0, 3} \cup {l \in {mps - HdrLen} : l >= 0}

\* The packets the stack writes, as <<protocol, payload length>>: IPv4 packets
\* of each length, and a short packet of the wide protocol number.
StackPackets(mps) ==
    ({ProtocolIPv4} \X PayloadLens(mps)) \cup {<<ProtocolWide, 3>>}

OpsUsed ==
    Len(rxlog) + Len(enqlog) + Cardinality({i \in DOMAIN txlog : txlog[i].qlen = 0})

\* No call of the handler is in progress.
NoCall == [at |-> "idle", arg |-> <<>>]

(***************************************************************************)
(* Construction: NIC.Init and Interface.Add.                               *)
(***************************************************************************)
MACLen == 6
NICID == 1

ErrMissingLink == "missing link endpoint"
ErrInvalidMAC == "invalid MAC address"
ErrParseMAC == "net.ParseMAC: invalid MAC address"
ErrParseMACAddress == "tcpip.ParseMACAddress: inconsistent parts"

\* The value of a handler field: nil, a function the caller assigned, or one
\* of the NIC's own methods.
NilHandler == "nil"
CustomHandler == "custom"
NoHandlers == [Rx |-> NilHandler, Tx |-> NilHandler, Control |-> NilHandler]
ECMHandlers == [Rx |-> "ECMRx", Tx |-> "ECMTx", Control |-> "ECMControl"]

\* The interface addControlInterface adds: one interrupt IN endpoint.
addControlInterface(dev, h) ==
    Append(dev,
        [InterfaceClass |-> "COMMUNICATION", AlternateSetting |-> 0,
         NumEndpoints |-> 1,
         Endpoints |-> <<[EndpointAddress |-> 130, Attributes |-> 3,
                          MaxPacketSize |-> 16, Function |-> h.Control]>>])

\* addDataInterfaces binding the bulk IN endpoint to Rx and the bulk OUT
\* endpoint to Tx.
addDataInterfaces_Swapped(dev, h, mps) ==
    dev \o
    <<[InterfaceClass |-> "DATA", AlternateSetting |-> 0,
       NumEndpoints |-> 0, Endpoints |-> <<>>],
      [InterfaceClass |-> "default", AlternateSetting |-> 1,
       NumEndpoints |-> 2,
       Endpoints |-> <<[EndpointAddress |-> 129, Attributes |-> 2,
                        MaxPacketSize |-> mps, Function |-> h.Rx],
                       [EndpointAddress |-> 1, Attributes |-> 2,
                        MaxPacketSize |-> mps, Function |-> h.Tx]>>]>>

\* The two settings of the data interface addDataInterfaces adds: one
\* without endpoints, one with the bulk IN and bulk OUT pair.
addDataInterfaces(dev, h, mps) ==
    dev \o
    <<[InterfaceClass |-> "DATA", AlternateSetting |-> 0,
       NumEndpoints |-> 0, Endpoints |-> <<>>],
      [InterfaceClass |-> "default", AlternateSetting |-> 1,
       NumEndpoints |-> 2,
       Endpoints |-> <<[EndpointAddress |-> 129, Attributes |-> 2,
                        MaxPacketSize |-> mps, Function |-> h.Tx],
                       [EndpointAddress |-> 1, Attributes |-> 2,
                        MaxPacketSize |-> mps, Function |-> h.Rx]>>]>>

\* NIC.Init installing its own methods over the handlers the caller set.
NICInit_Overwrite(link, host, dmac, h, dev, mps, gmps) ==
    IF ~link
    THEN [err |-> ErrMissingLink, handlers |-> h, device |-> dev,
          maxPacketSize |-> mps]
    ELSE IF Len(host) # MACLen \/ Len(dmac) # MACLen
    THEN [err |-> ErrInvalidMAC, handlers |-> h, device |-> dev,
          maxPacketSize |-> mps]
    ELSE [err |-> NoError, handlers |-> ECMHandlers,
          device |-> addDataInterfaces(addControlInterface(dev, ECMHandlers),
                                       ECMHandlers, gmps),
          maxPacketSize |-> gmps]

\* NIC.Init on a NIC with the given fields, MaxPacketSize being gmps.
NICInit(link, host, dmac, h, dev, mps, gmps) ==
    IF ~link
    THEN [err |-> ErrMissingLink, handlers |-> h, device |-> dev,
          maxPacketSize |-> mps]
    ELSE IF Len(host) # MACLen \/ Len(dmac) # MACLen
    THEN [err |-> ErrInvalidMAC, handlers |-> h, device |-> dev,
          maxPacketSize |-> mps]
    ELSE LET h2 == [Rx |-> IF h.Rx = NilHandler THEN "ECMRx" ELSE h.Rx,
                    Tx |-> IF h.Tx = NilHandler THEN "ECMTx" ELSE h.Tx,
                    Control |-> IF h.Control = NilHandler THEN "ECMControl"
                                ELSE h.Control]
         IN  [err |-> NoError, handlers |-> h2,
              device |-> addDataInterfaces(addControlInterface(dev, h2),
                                           h2, gmps),
              maxPacketSize |-> gmps]

\* A MAC address in text: whether it is well-formed hexadecimal groups, and
\* the bytes the groups stand for.
MACText(hex, n) ==
    [hex |-> hex,
     bytes |-> [i \in 1..n |-> <<26, 85, 137, 162, 105, 66>>[((i - 1) % 6) + 1]]]

\* net.ParseMAC: 6, 8 or 20 bytes.
ParseMAC(s) ==
    IF s.hex /\ Len(s.bytes) \in {6, 8, 20}
    THEN [err |-> NoError, addr |-> s.bytes]
    ELSE [err |-> ErrParseMAC, addr |-> <<>>]

\* tcpip.ParseMACAddress: exactly 6 bytes.
ParseMACAddress(s) ==
    IF s.hex /\ Len(s.bytes) = 6
    THEN [err |-> NoError, addr |-> s.bytes]
    ELSE [err |-> ErrParseMACAddress, addr |-> <<>>]

\* An Interface as declared: no field set.
NoInterface ==
    [NICID |-> 0, NIC |-> FALSE, Stack |-> FALSE, Link |-> FALSE,
     StackNICs |-> {}]

\* Interface.configure: the stack, the link endpoint and the stack's NIC.
configure(ifc, mac) ==
    LET i1 == [ifc EXCEPT !.Stack = TRUE]
        linkAddr == ParseMACAddress(mac)
    IN  IF linkAddr.err # NoError
        THEN [iface |-> i1, err |-> linkAddr.err]
        ELSE [iface |-> [i1 EXCEPT !.Link = TRUE,
                                   !.StackNICs = @ \cup {i1.NICID}],
              err |-> NoError]

\* The Interface a successful Interface.Add leaves.
AddedInterface == configure([NoInterface EXCEPT !.NICID = NICID],
                            MACText(TRUE, MACLen)).iface

(***************************************************************************)
(* Initial state: the NIC after Init() returned nil.                       *)
(***************************************************************************)
Init ==
    /\ HostMAC = <<26, 85, 137, 162, 105, 65>>
    /\ DeviceMAC = <<26, 85, 137, 162, 105, 66>>
    /\ maxPacketSize \in MaxPacketSizes
    /\ buf = <<>>
    /\ panicked = FALSE
    /\ outq = <<>>
    /\ rxlog = <<>>
    /\ injected = <<>>
    /\ enqlog = <<>>
    /\ txlog = <<>>
    /\ rxLastErr = NoError
    /\ txLastErr = NoError
    /\ Link = TRUE
    /\ LET r == NICInit(TRUE, HostMAC, DeviceMAC, NoHandlers, <<>>, 0,
                        maxPacketSize)
       IN  handlers = r.handlers /\ device = r.device /\ err = r.err
    /\ iface = [AddedInterface EXCEPT !.NIC = TRUE]
    /\ pkgMaxPacketSize = maxPacketSize
    /\ rxcall = NoCall
    /\ txcall = NoCall
    /\ pc = "added"

(***************************************************************************)
(* Actions.                                                                *)
(***************************************************************************)
\* ECMRx comparing the transfer with the package variable MaxPacketSize
\* instead of the NIC's own maxPacketSize.
Rx_PackageThreshold(len, lastErr) ==
    /\ ~panicked
    /\ OpsUsed < MaxOps
    /\ LET n == Len(rxlog) + 1
           r == ECMRx(buf, Chunk(n, len), pkgMaxPacketSize)
       IN  /\ buf' = r.buf
           /\ panicked' = r.panic
           /\ injected' = injected \o
                [i \in 1..Len(r.inject) |->
                    [hdr |-> r.inject[i].hdr, proto |-> r.inject[i].proto,
                     payload |-> r.inject[i].payload, call |-> n]]
           /\ rxlog' = Append(rxlog,
                [len |-> len, pre |-> Len(buf), post |-> Len(r.buf),
                 dropped |-> r.dropped, ninj |-> Len(r.inject),
                 ret |-> ECMRxReturn(lastErr)])
           /\ rxLastErr' = lastErr
    /\ UNCHANGED <<cfgvars, txvars, txLastErr, ctorvars, pkgMaxPacketSize,
                   callvars>>

\* The USB driver completes a bulk OUT transfer of length len and calls
\* eth.Rx = ECMRx with it.
Rx(len, lastErr) ==
    /\ ~panicked
    /\ OpsUsed < MaxOps
    /\ LET n == Len(rxlog) + 1
           r == ECMRx(buf, Chunk(n, len), maxPacketSize)
       IN  /\ buf' = r.buf
           /\ panicked' = r.panic
           /\ injected' = injected \o
                [i \in 1..Len(r.inject) |->
                    [hdr |-> r.inject[i].hdr, proto |-> r.inject[i].proto,
                     payload |-> r.inject[i].payload, call |-> n]]
           /\ rxlog' = Append(rxlog,
                [len |-> len, pre |-> Len(buf), post |-> Len(r.buf),
                 dropped |-> r.dropped, ninj |-> Len(r.inject),
                 ret |-> ECMRxReturn(lastErr)])
           /\ rxLastErr' = lastErr
    /\ UNCHANGED <<cfgvars, txvars, txLastErr, ctorvars, pkgMaxPacketSize,
                   callvars>>

\* The stack writes a packet to the link endpoint: queued while the channel
\* has room, dropped otherwise.
StackWrite(proto, len) ==
    /\ ~panicked
    /\ OpsUsed < MaxOps
    /\ LET pkt == [proto |-> proto,
                   segs |-> Slices(PayloadBytes(Len(enqlog) + 1, len))]
       IN  IF Len(outq) < QueueSize
           THEN /\ outq' = Append(outq, pkt)
                /\ enqlog' = Append(enqlog, pkt)
           ELSE UNCHANGED <<outq, enqlog>>
    /\ UNCHANGED <<cfgvars, rxvars, txlog, rxLastErr, txLastErr, ctorvars, pkgMaxPacketSize,
                   callvars>>

\* A poll that waits until the stack has queued a packet.
Tx_Blocking(lastErr) ==
    /\ ~panicked
    /\ outq # <<>>
    /\ LET r == ECMTx(outq, HostMAC, DeviceMAC)
       IN  /\ outq' = r.q
           /\ txlog' = Append(txlog,
                [in |-> r.in, read |-> r.read, qlen |-> Len(outq),
                 qafter |-> Len(r.q), err |-> ECMTxReturn(r.in, lastErr).err])
           /\ txLastErr' = lastErr
    /\ UNCHANGED <<cfgvars, rxvars, enqlog, rxLastErr, ctorvars, pkgMaxPacketSize,
                   callvars>>

\* The USB driver polls eth.Tx = ECMTx for the next bulk IN transfer.
Tx(lastErr) ==
    /\ ~panicked
    /\ outq = <<>> => OpsUsed < MaxOps
    /\ LET r == ECMTx(outq, HostMAC, DeviceMAC)
       IN  /\ outq' = r.q
           /\ txlog' = Append(txlog,
                [in |-> r.in, read |-> r.read, qlen |-> Len(outq),
                 qafter |-> Len(r.q), err |-> ECMTxReturn(r.in, lastErr).err])
           /\ txLastErr' = lastErr
    /\ UNCHANGED <<cfgvars, rxvars, enqlog, rxLastErr, ctorvars, pkgMaxPacketSize,
                   callvars>>

\* Every transfer completes: the driver passes lastErr = nil.
Next ==
    \/ \E len \in ChunkLens(maxPacketSize) : Rx(len, NoError)
    \/ \E p \in StackPackets(maxPacketSize) : StackWrite(p[1], p[2])
    \/ Tx(NoError)

Spec == Init /\ [][Next]_vars

\* Transfers may fail: the driver passes the error of the transfer as lastErr.
NextErr ==
    \/ \E len \in ChunkLens(maxPacketSize), lastErr \in Errors :
          Rx(len, lastErr)
    \/ \E p \in StackPackets(maxPacketSize) : StackWrite(p[1], p[2])
    \/ \E lastErr \in Errors : Tx(lastErr)

\* A device built with a MaxPacketSize that holds an Ethernet header and is
\* below the default, which keeps the transfers short.
InitErr == Init /\ HdrLen <= maxPacketSize /\ maxPacketSize < MaxPacketSize

SpecErr == InitErr /\ [][NextErr]_vars

\* The USB driver calls eth.Control = ECMControl, which does nothing.
Control(lastErr) ==
    /\ ~panicked
    /\ UNCHANGED vars

\* The program assigns the exported package variable MaxPacketSize.
SetMaxPacketSize(m) ==
    /\ m # pkgMaxPacketSize
    /\ pkgMaxPacketSize' = m
    /\ UNCHANGED <<cfgvars, rxvars, txvars, rxLastErr, txLastErr, ctorvars,
                   callvars>>

\* The three handlers at work while the program changes MaxPacketSize.
NextCfg ==
    \/ \E len \in ChunkLens(maxPacketSize) : Rx(len, NoError)
    \/ \E p \in StackPackets(maxPacketSize) : StackWrite(p[1], p[2])
    \/ Tx(NoError)
    \/ \E lastErr \in Errors : Control(lastErr)
    \/ \E m \in MaxPacketSizes : SetMaxPacketSize(m)

SpecCfg == InitErr /\ [][NextCfg]_vars

(***************************************************************************)
(* ECMRx and ECMTx statement by statement: the driver serves each endpoint *)
(* on its own, so a call of one handler may run between two statements of  *)
(* the other.  Each handler has at most one call in progress.              *)
(***************************************************************************)
ParOps == OpsUsed + (IF rxcall.at = "idle" THEN 0 ELSE 1)

\* ECMRx is called: the test of the short-chunk rule.
RxBegin(len) ==
    /\ ~panicked
    /\ rxcall.at = "idle"
    /\ ParOps < MaxOps
    /\ LET out == Chunk(Len(rxlog) + 1, len)
       IN  IF Len(buf) = 0 /\ Len(out) < HdrLen
           THEN /\ rxlog' = Append(rxlog,
                     [len |-> len, pre |-> Len(buf), post |-> Len(buf),
                      dropped |-> TRUE, ninj |-> 0,
                      ret |-> ECMRxReturn(NoError)])
                /\ UNCHANGED rxcall
           ELSE /\ rxcall' = [at |-> "append", arg |-> out]
                /\ UNCHANGED rxlog
    /\ UNCHANGED <<cfgvars, buf, panicked, injected, txvars, rxLastErr,
                   txLastErr, ctorvars, pkgMaxPacketSize, txcall>>

\* eth.buf = append(eth.buf, out...) and the test of len(out).
RxAppend ==
    /\ rxcall.at = "append"
    /\ LET out == rxcall.arg
           nb == buf \o out
       IN  /\ buf' = nb
           /\ IF Len(out) = maxPacketSize
              THEN /\ rxlog' = Append(rxlog,
                        [len |-> Len(out), pre |-> Len(buf),
                         post |-> Len(nb), dropped |-> FALSE, ninj |-> 0,
                         ret |-> ECMRxReturn(NoError)])
                   /\ rxcall' = NoCall
                   /\ UNCHANGED panicked
              ELSE IF Len(nb) < HdrLen
              THEN /\ panicked' = TRUE
                   /\ rxcall' = NoCall
                   /\ UNCHANGED rxlog
              ELSE /\ rxcall' = [rxcall EXCEPT !.at = "inject"]
                   /\ UNCHANGED <<rxlog, panicked>>
    /\ UNCHANGED <<cfgvars, injected, txvars, rxLastErr, txLastErr, ctorvars,
                   pkgMaxPacketSize, txcall>>

\* hdr, proto and payload are taken from eth.buf and the packet is injected.
RxInject ==
    /\ rxcall.at = "inject"
    /\ LET p == RxPacket(buf)
       IN  injected' = Append(injected,
                [hdr |-> p.hdr, proto |-> p.proto, payload |-> p.payload,
                 call |-> Len(rxlog) + 1])
    /\ rxcall' = [rxcall EXCEPT !.at = "reset"]
    /\ UNCHANGED <<cfgvars, buf, panicked, rxlog, txvars, rxLastErr,
                   txLastErr, ctorvars, pkgMaxPacketSize, txcall>>

\* eth.buf = []byte{} and the return.
RxReset ==
    /\ rxcall.at = "reset"
    /\ buf' = <<>>
    /\ rxlog' = Append(rxlog,
          [len |-> Len(rxcall.arg), pre |-> Len(buf) - Len(rxcall.arg),
           post |-> 0, dropped |-> FALSE, ninj |-> 1,
           ret |-> ECMRxReturn(NoError)])
    /\ rxcall' = NoCall
    /\ UNCHANGED <<cfgvars, panicked, injected, txvars, rxLastErr,
                   txLastErr, ctorvars, pkgMaxPacketSize, txcall>>

\* ECMTx is called: eth.Link.Read() and the test of the packet.
TxRead ==
    /\ ~panicked
    /\ txcall.at = "idle"
    /\ outq = <<>> => ParOps < MaxOps
    /\ IF outq = <<>>
       THEN /\ txlog' = Append(txlog,
                 [in |-> <<>>, read |-> <<>>, qlen |-> 0, qafter |-> 0,
                  err |-> ECMTxReturn(<<>>, NoError).err])
            /\ UNCHANGED <<outq, txcall>>
       ELSE /\ outq' = Tail(outq)
            /\ txcall' = [at |-> "build", arg |-> <<Head(outq), Len(outq)>>]
            /\ UNCHANGED txlog
    /\ UNCHANGED <<cfgvars, rxvars, enqlog, rxLastErr, txLastErr, ctorvars,
                   pkgMaxPacketSize, rxcall>>

\* A frame built in eth.buf instead of a buffer of its own.
TxBuild_SharedBuf ==
    /\ txcall.at = "build"
    /\ LET pkt == txcall.arg[1]
           r == ECMTx(<<pkt>>, HostMAC, DeviceMAC)
       IN  /\ buf' = r.in
           /\ txlog' = Append(txlog,
                [in |-> r.in, read |-> <<pkt>>, qlen |-> txcall.arg[2],
                 qafter |-> txcall.arg[2] - 1,
                 err |-> ECMTxReturn(r.in, NoError).err])
    /\ txcall' = NoCall
    /\ UNCHANGED <<cfgvars, panicked, rxlog, injected, outq, enqlog,
                   rxLastErr, txLastErr, ctorvars, pkgMaxPacketSize, rxcall>>

\* The frame is built from the MAC addresses and the packet, and returned.
TxBuild ==
    /\ txcall.at = "build"
    /\ LET pkt == txcall.arg[1]
           r == ECMTx(<<pkt>>, HostMAC, DeviceMAC)
       IN  txlog' = Append(txlog,
                [in |-> r.in, read |-> <<pkt>>, qlen |-> txcall.arg[2],
                 qafter |-> txcall.arg[2] - 1,
                 err |-> ECMTxReturn(r.in, NoError).err])
    /\ txcall' = NoCall
    /\ UNCHANGED <<cfgvars, rxvars, outq, enqlog, rxLastErr, txLastErr,
                   ctorvars, pkgMaxPacketSize, rxcall>>

\* The stack writes a packet while calls may be in progress.
ParStackWrite(proto, len) ==
    /\ ParOps < MaxOps
    /\ StackWrite(proto, len)

NextPar ==
    \/ \E len \in ChunkLens(maxPacketSize) : RxBegin(len)
    \/ RxAppend
    \/ RxInject
    \/ RxReset
    \/ TxRead
    \/ TxBuild
    \/ \E p \in StackPackets(maxPacketSize) : ParStackWrite(p[1], p[2])

SpecPar == InitErr /\ [][NextPar]_vars

(***************************************************************************)
(* ECMRx given frames with chosen addresses and protocol numbers.          *)
(***************************************************************************)
Broadcast == <<255, 255, 255, 255, 255, 255>>
ProtocolARP == 2054

\* A frame of one transfer: the header and one byte of payload.
Frame(dst, src, proto) == dst \o src \o BigEndianPutUint16(proto) \o <<170>>

\* The USB driver calls eth.Rx = ECMRx with such a frame.
RxFrame(dst, src, proto) ==
    /\ ~panicked
    /\ OpsUsed < MaxOps
    /\ LET n == Len(rxlog) + 1
           out == Frame(dst, src, proto)
           r == ECMRx(buf, out, maxPacketSize)
       IN  /\ buf' = r.buf
           /\ panicked' = r.panic
           /\ injected' = injected \o
                [i \in 1..Len(r.inject) |->
                    [hdr |-> r.inject[i].hdr, proto |-> r.inject[i].proto,
                     payload |-> r.inject[i].payload, call |-> n]]
           /\ rxlog' = Append(rxlog,
                [len |-> Len(out), pre |-> Len(buf), post |-> Len(r.buf),
                 dropped |-> r.dropped, ninj |-> Len(r.inject),
                 ret |-> ECMRxReturn(NoError), out |-> out])
           /\ rxLastErr' = NoError
    /\ UNCHANGED <<cfgvars, txvars, txLastErr, ctorvars, pkgMaxPacketSize,
                   callvars>>

NextMAC ==
    \E dst \in {DeviceMAC, HostMAC, Broadcast}, src \in {HostMAC, DeviceMAC},
       proto \in {ProtocolIPv4, ProtocolARP} :
        RxFrame(dst, src, proto)

SpecMAC == InitErr /\ [][NextMAC]_vars

(***************************************************************************)
(* Construction as a state machine: the caller fills in a NIC and calls    *)
(* NIC.Init, or calls Interface.Add on a new Interface.                    *)
(***************************************************************************)
MACLens == {0, 5, 6, 8}

HandlerChoices ==
    {NoHandlers,
     [Rx |-> CustomHandler, Tx |-> NilHandler, Control |-> NilHandler],
     [Rx |-> CustomHandler, Tx |-> CustomHandler, Control |-> CustomHandler]}

\* Interface.Add on interface ifc whose NIC, when it has one, has the given
\* fields.
InterfaceAdd(ifc, link, host, dmac, h, dev, mps, deviceMAC, hostMAC, gmps) ==
    LET hostAddress == ParseMAC(hostMAC)
        deviceAddress == ParseMAC(deviceMAC)
        i0 == [ifc EXCEPT !.NICID = IF @ = 0 THEN NICID ELSE @]
        c == configure(i0, deviceMAC)
        r == NICInit(c.iface.Link, hostAddress.addr, deviceAddress.addr,
                     NoHandlers, dev, 0, gmps)
        same == [iface |-> ifc, Link |-> link, HostMAC |-> host,
                 DeviceMAC |-> dmac, handlers |-> h, device |-> dev,
                 maxPacketSize |-> mps, err |-> NoError]
    IN  IF hostAddress.err # NoError
        THEN [same EXCEPT !.err = hostAddress.err]
        ELSE IF deviceAddress.err # NoError
        THEN [same EXCEPT !.err = deviceAddress.err]
        ELSE IF c.err # NoError
        THEN [same EXCEPT !.iface = c.iface, !.err = c.err]
        ELSE IF ifc.NIC
        THEN [same EXCEPT !.iface = c.iface]
        ELSE [iface |-> [c.iface EXCEPT !.NIC = TRUE],
              Link |-> c.iface.Link,
              HostMAC |-> hostAddress.addr,
              DeviceMAC |-> deviceAddress.addr,
              handlers |-> r.handlers, device |-> r.device,
              maxPacketSize |-> r.maxPacketSize, err |-> r.err]

\* Nothing is constructed yet: every field has its zero value.
InitAdd ==
    /\ HostMAC = <<>>
    /\ DeviceMAC = <<>>
    /\ maxPacketSize = 0
    /\ buf = <<>>
    /\ panicked = FALSE
    /\ outq = <<>>
    /\ rxlog = <<>>
    /\ injected = <<>>
    /\ enqlog = <<>>
    /\ txlog = <<>>
    /\ rxLastErr = NoError
    /\ txLastErr = NoError
    /\ Link = FALSE
    /\ handlers = NoHandlers
    /\ device = <<>>
    /\ iface = NoInterface
    /\ err = NoError
    /\ pkgMaxPacketSize \in MaxPacketSizes
    /\ rxcall = NoCall
    /\ txcall = NoCall
    /\ pc = "new"

\* The caller fills in the exported fields of a NIC.
NewNIC(link, host, dmac, h) ==
    /\ pc = "new"
    /\ Link' = link
    /\ HostMAC' = host
    /\ DeviceMAC' = dmac
    /\ handlers' = h
    /\ pc' = "built"
    /\ UNCHANGED <<maxPacketSize, rxvars, txvars, rxLastErr, txLastErr,
                   device, iface, err, pkgMaxPacketSize,
                   callvars>>

\* The caller calls NIC.Init, MaxPacketSize being gmps.
CallInit(gmps) ==
    /\ pc = "built"
    /\ LET r == NICInit(Link, HostMAC, DeviceMAC, handlers, device,
                        maxPacketSize, gmps)
       IN  /\ handlers' = r.handlers
           /\ device' = r.device
           /\ maxPacketSize' = r.maxPacketSize
           /\ err' = r.err
    /\ pc' = "done"
    /\ UNCHANGED <<HostMAC, DeviceMAC, Link, rxvars, txvars, rxLastErr,
                   txLastErr, iface, pkgMaxPacketSize,
                   callvars>>

\* The caller sets the NIC field of the Interface to a NIC of its own before
\* calling Interface.Add.
PresetNIC(link, host, dmac, h) ==
    /\ pc = "new"
    /\ iface' = [iface EXCEPT !.NIC = TRUE]
    /\ Link' = link
    /\ HostMAC' = host
    /\ DeviceMAC' = dmac
    /\ handlers' = h
    /\ pc' = "preset"
    /\ UNCHANGED <<maxPacketSize, rxvars, txvars, rxLastErr, txLastErr,
                   device, err, pkgMaxPacketSize, callvars>>

\* The caller calls Interface.Add with two addresses in text.
CallAdd(deviceMAC, hostMAC, gmps) ==
    /\ pc \in {"new", "preset"}
    /\ LET r == InterfaceAdd(iface, Link, HostMAC, DeviceMAC, handlers,
                             device, maxPacketSize, deviceMAC, hostMAC, gmps)
       IN  /\ iface' = r.iface
           /\ Link' = r.Link
           /\ HostMAC' = r.HostMAC
           /\ DeviceMAC' = r.DeviceMAC
           /\ handlers' = r.handlers
           /\ device' = r.device
           /\ maxPacketSize' = r.maxPacketSize
           /\ err' = r.err
    /\ pc' = IF iface.NIC THEN "kept" ELSE "added"
    /\ UNCHANGED <<rxvars, txvars, rxLastErr, txLastErr, pkgMaxPacketSize,
                   callvars>>

MACTexts == {MACText(hex, n) : hex \in BOOLEAN, n \in MACLens}

NextAdd ==
    \/ \E link \in BOOLEAN, hn, dn \in MACLens, h \in HandlerChoices :
          NewNIC(link, MACText(TRUE, hn).bytes, MACText(TRUE, dn).bytes, h)
    \/ CallInit(pkgMaxPacketSize)
    \/ \E link \in BOOLEAN, h \in HandlerChoices :
          PresetNIC(link, MACText(TRUE, MACLen).bytes,
                    MACText(TRUE, MACLen).bytes, h)
    \/ \E deviceMAC, hostMAC \in MACTexts :
          CallAdd(deviceMAC, hostMAC, pkgMaxPacketSize)

SpecAdd == InitAdd /\ [][NextAdd]_vars

(***************************************************************************)
(* Reading the histories.                                                  *)
(***************************************************************************)
\* The bytes of the k-th transfer.
CallChunk(k) == Chunk(k, rxlog[k].len)

RECURSIVE Joined(_, _)
\* The bytes of transfers i..j, in arrival order.
Joined(i, j) == IF i > j THEN <<>> ELSE CallChunk(i) \o Joined(i + 1, j)

RECURSIVE JoinedKept(_, _)
\* The bytes of those transfers i..j that did not take the early return.
JoinedKept(i, j) ==
    IF i > j THEN <<>>
    ELSE (IF rxlog[i].dropped THEN <<>> ELSE CallChunk(i)) \o JoinedKept(i + 1, j)

\* A packet without the number of the call that injected it.
Bare(p) == [hdr |-> p.hdr, proto |-> p.proto, payload |-> p.payload]

BareSeq(ps) == [i \in 1..Len(ps) |-> Bare(ps[i])]

\* The packets injected by calls i..j, in order.
InjectedBy(i, j) == SelectSeq(injected, LAMBDA p : p.call \in i..j)

\* The packet an Ethernet frame f (14 bytes or more) stands for.
FramePacket(f) ==
    [hdr |-> SubSeq(f, 1, 14),
     proto |-> 256 * f[13] + f[14],
     payload |-> SubSeq(f, 15, Len(f))]

RECURSIVE Cut(_, _)
\* The transfers the USB transport makes of a frame f: transfers of mps bytes
\* (mps > 0) and a last one that is shorter, zero-length when Len(f) is a
\* multiple of mps.
Cut(f, mps) ==
    IF Len(f) < mps THEN <<f>>
    ELSE <<SubSeq(f, 1, mps)>> \o Cut(SubSeq(f, mps + 1, Len(f)), mps)

RECURSIVE RxRun(_, _, _)
\* ECMRx called with each of the transfers in turn, from the state st.
RxRun(st, transfers, mps) ==
    IF transfers = <<>> \/ st.panic THEN st
    ELSE LET r == ECMRx(st.buf, Head(transfers), mps)
         IN  RxRun([buf |-> r.buf, inject |-> st.inject \o r.inject,
                    panic |-> r.panic], Tail(transfers), mps)

RxEmpty == [buf |-> <<>>, inject |-> <<>>, panic |-> FALSE]

\* Transfers i..j are what USB makes of one frame: all but the last exactly
\* maxPacketSize long, the last shorter.
UsbSplit(i, j) ==
    /\ \A k \in i..(j - 1) : rxlog[k].len = maxPacketSize
    /\ rxlog[j].len < maxPacketSize

(***************************************************************************)
(* C1.  A frame split into transfers and fed to ECMRx from an empty buffer *)
(* injects exactly one packet, the one the frame injects when it arrives   *)
(* as a single transfer.                                                   *)
(***************************************************************************)
\* C1 as claimed, for every split into transfers of at most maxPacketSize
\* bytes: whenever transfers i..j start on an empty buffer and make up a
\* frame of 14 bytes or more, which injects a packet when it arrives as one
\* transfer, calls i..j inject exactly one packet, with that payload and
\* protocol.
C1_AnySplit ==
    \A i \in DOMAIN rxlog : \A j \in i..Len(rxlog) :
        LET f == Joined(i, j)
            single == ECMRx(<<>>, f, maxPacketSize).inject
            got == InjectedBy(i, j)
        IN  ( /\ rxlog[i].pre = 0
              /\ \A k \in i..j : rxlog[k].len <= maxPacketSize
              /\ Len(f) >= HdrLen
              /\ Len(single) = 1 )
            => /\ Len(got) = 1
               /\ got[1].payload = single[1].payload
               /\ got[1].proto = single[1].proto

\* C1 amended: with maxPacketSize >= 14, whenever transfers i..j start on an
\* empty buffer, all but the last are exactly maxPacketSize long and the last
\* is shorter (zero-length when the frame is a multiple of maxPacketSize),
\* calls i..j inject exactly one packet, by call j, with header, protocol and
\* payload those of the frame; it is the packet the frame injects as a single
\* transfer whenever its length differs from maxPacketSize.
C1_UsbSplitReassembles ==
    \A i \in DOMAIN rxlog : \A j \in i..Len(rxlog) :
        LET f == Joined(i, j)
            got == InjectedBy(i, j)
        IN  ( /\ maxPacketSize >= HdrLen
              /\ rxlog[i].pre = 0
              /\ UsbSplit(i, j)
              /\ Len(f) >= HdrLen )
            => /\ Len(got) = 1
               /\ got[1].call = j
               /\ Bare(got[1]) = FramePacket(f)
               /\ Len(f) # maxPacketSize =>
                     ECMRx(<<>>, f, maxPacketSize).inject = <<Bare(got[1])>>

\* A frame of two full transfers and a 1-byte one has been reassembled.
C1_Witness ==
    /\ maxPacketSize >= HdrLen
    /\ Len(rxlog) = 3
    /\ rxlog[1].len = maxPacketSize
    /\ rxlog[2].len = maxPacketSize
    /\ rxlog[3].len = 1
    /\ Len(injected) = 1
    /\ Len(injected[1].payload) = 2 * maxPacketSize + 1 - HdrLen

(***************************************************************************)
(* C2.  Round trip: what ECMTx returns for a packet, cut into transfers by *)
(* the USB transport and fed to ECMRx from an empty buffer, injects that   *)
(* packet.                                                                 *)
(***************************************************************************)
\* The result of feeding the frame of the t-th ECMTx call back to ECMRx.
Echo(t) == RxRun(RxEmpty, Cut(txlog[t].in, maxPacketSize), maxPacketSize)

RoundTrips(t) ==
    LET pkt == txlog[t].read[1]
        back == Echo(t)
    IN  /\ ~back.panic
        /\ Len(back.inject) = 1
        /\ back.inject[1].payload = Flatten(pkt.segs)
        /\ back.inject[1].proto = pkt.proto
        /\ SubSeq(back.inject[1].hdr, 1, 6) = HostMAC
        /\ SubSeq(back.inject[1].hdr, 7, 12) = DeviceMAC

\* C2 as claimed, for every payload and protocol (and every maxPacketSize the
\* transport can cut by): every frame ECMTx returned for a dequeued packet
\* round-trips to one packet with that payload and protocol and with Host MAC
\* then Device MAC in its header.
C2_RoundTripAny ==
    \A t \in DOMAIN txlog :
        (txlog[t].read # <<>> /\ maxPacketSize > 0) => RoundTrips(t)

\* C2 amended: the round trip holds when maxPacketSize >= 14 and the packet's
\* protocol number fits 16 bits.
C2_RoundTrip ==
    \A t \in DOMAIN txlog :
        ( /\ txlog[t].read # <<>>
          /\ maxPacketSize >= HdrLen
          /\ txlog[t].read[1].proto < 65536 )
        => /\ RoundTrips(t)
           /\ Echo(t).buf = <<>>

\* ECMTx returned a frame exactly maxPacketSize long (a full transfer and a
\* zero-length one) and a frame of two slices that fits one short transfer.
C2_Witness ==
    /\ maxPacketSize >= HdrLen
    /\ \E t \in DOMAIN txlog :
          /\ txlog[t].read # <<>>
          /\ txlog[t].read[1].proto < 65536
          /\ Len(txlog[t].in) = maxPacketSize
          /\ Len(Cut(txlog[t].in, maxPacketSize)) = 2
    /\ \E t \in DOMAIN txlog :
          /\ txlog[t].read # <<>>
          /\ txlog[t].read[1].proto < 65536
          /\ Len(txlog[t].read[1].segs) = 2

(***************************************************************************)
(* C3.  The Reassembly Buffer stays below a maximum frame size.            *)
(***************************************************************************)
\* The largest frame the link carries: the header and MTU bytes of payload.
MaxFrameSize == HdrLen + MTU

\* C3: between receive calls the buffer holds fewer bytes than the largest
\* permitted frame.
C3_BufferBounded == Len(buf) < MaxFrameSize

(***************************************************************************)
(* C4.  ECMRx never panics.                                                *)
(***************************************************************************)
\* C4: for every maxPacketSize and every sequence of transfers, no slice
\* expression of ECMRx is out of range: every call that reached the dispatch
\* step did so with at least 14 bytes in the buffer.
C4_NoPanic ==
    /\ ~panicked
    /\ \A k \in DOMAIN rxlog :
          (~rxlog[k].dropped /\ rxlog[k].len # maxPacketSize)
              => rxlog[k].pre + rxlog[k].len >= HdrLen

\* With maxPacketSize 0 a zero-length transfer arrived and a transfer longer
\* than maxPacketSize was dispatched.
C4_Witness ==
    /\ maxPacketSize = 0
    /\ \E k \in DOMAIN rxlog : rxlog[k].len = 0
    /\ \E k \in DOMAIN rxlog : rxlog[k].ninj = 1 /\ rxlog[k].len > maxPacketSize

(***************************************************************************)
(* C5.  Between receive calls the buffer is empty or holds a header.       *)
(***************************************************************************)
\* C5: after any sequence of transfers Len(buf) is 0 or at least 14, never
\* 1..13.
C5_BufferEmptyOrHeader ==
    /\ Len(buf) = 0 \/ Len(buf) >= HdrLen
    /\ \A k \in DOMAIN rxlog : rxlog[k].post = 0 \/ rxlog[k].post >= HdrLen

\* A short transfer was dropped and a frame is in progress.
C5_Witness ==
    /\ Len(buf) >= HdrLen
    /\ \E k \in DOMAIN rxlog : rxlog[k].dropped /\ rxlog[k].len > 0

(***************************************************************************)
(* C6.  A transfer of exactly maxPacketSize bytes and then a zero-length   *)
(* transfer, from an empty buffer, make one frame.                         *)
(***************************************************************************)
\* What C6 says of a full transfer k and the zero-length transfer after it.
FullThenZeroLength(k) ==
    LET got == InjectedBy(k, k + 1)
    IN  /\ rxlog[k].ninj = 0
        /\ rxlog[k + 1].ninj = 1
        /\ Len(got) = 1
        /\ got[1].call = k + 1
        /\ Len(got[1].payload) = maxPacketSize - HdrLen
        /\ got[1].hdr \o got[1].payload = CallChunk(k)
        /\ rxlog[k + 1].post = 0

\* C6 as claimed, for every maxPacketSize: a transfer of maxPacketSize bytes
\* on an empty buffer followed by a zero-length transfer injects one packet,
\* on the second call, with the first transfer's bytes, and leaves the
\* buffer empty.
C6_FullThenZeroLengthAny ==
    \A k \in DOMAIN rxlog :
        ( /\ k + 1 \in DOMAIN rxlog
          /\ rxlog[k].pre = 0
          /\ rxlog[k].len = maxPacketSize
          /\ rxlog[k + 1].len = 0 )
        => FullThenZeroLength(k)

\* C6 amended: when maxPacketSize >= 14, a transfer of maxPacketSize bytes on
\* an empty buffer followed by a zero-length transfer injects exactly one
\* packet, on the second call and not on the first, with payload length
\* maxPacketSize - 14 and the first transfer's bytes, and leaves the buffer
\* empty.
C6_FullThenZeroLength ==
    \A k \in DOMAIN rxlog :
        ( /\ maxPacketSize >= HdrLen
          /\ k + 1 \in DOMAIN rxlog
          /\ rxlog[k].pre = 0
          /\ rxlog[k].len = maxPacketSize
          /\ rxlog[k + 1].len = 0 )
        => FullThenZeroLength(k)

\* A 512-byte transfer and a zero-length one have been received.
C6_Witness ==
    /\ maxPacketSize = MaxPacketSize
    /\ Len(rxlog) = 2
    /\ rxlog[1].len = maxPacketSize
    /\ rxlog[2].len = 0
    /\ Len(injected) = 1

(***************************************************************************)
(* C7.  A single short transfer of 14 bytes or more is a whole frame.      *)
(***************************************************************************)
\* C7: a transfer of at least 14 and fewer than maxPacketSize bytes on an
\* empty buffer injects one packet (the transfer's header, protocol and
\* payload) within that call and leaves the buffer empty.
C7_ShortTransferCompletes ==
    \A k \in DOMAIN rxlog :
        ( /\ rxlog[k].pre = 0
          /\ rxlog[k].len >= HdrLen
          /\ rxlog[k].len < maxPacketSize )
        => /\ rxlog[k].ninj = 1
           /\ rxlog[k].post = 0
           /\ BareSeq(InjectedBy(k, k)) = <<FramePacket(CallChunk(k))>>

\* A 15-byte transfer arrived first and was dispatched at once.
C7_Witness ==
    /\ Len(rxlog) = 1
    /\ rxlog[1].len = HdrLen + 1
    /\ rxlog[1].len < maxPacketSize
    /\ Len(injected) = 1
    /\ buf = <<>>

(***************************************************************************)
(* C8.  A short transfer on an empty buffer changes nothing.               *)
(***************************************************************************)
RECURSIVE WithoutShortInitial(_)
\* The transfers 1..n without those shorter than 14 bytes that arrived on an
\* empty buffer.
WithoutShortInitial(n) ==
    IF n = 0 THEN <<>>
    ELSE WithoutShortInitial(n - 1) \o
         (IF rxlog[n].pre = 0 /\ rxlog[n].len < HdrLen
          THEN <<>> ELSE <<CallChunk(n)>>)

\* C8: a transfer shorter than 14 bytes (zero-length included) that arrives
\* on an empty buffer injects nothing and leaves the buffer empty, and the
\* buffer and the packets injected are those of the same transfers with the
\* short ones left out.
C8_ShortInitialDropped ==
    /\ \A k \in DOMAIN rxlog :
          (rxlog[k].pre = 0 /\ rxlog[k].len < HdrLen)
              => rxlog[k].ninj = 0 /\ rxlog[k].post = 0
    /\ LET clean == RxRun(RxEmpty, WithoutShortInitial(Len(rxlog)),
                          maxPacketSize)
       IN  /\ ~panicked
           /\ clean.buf = buf
           /\ clean.inject = BareSeq(injected)

\* A 13-byte transfer was dropped and the two transfers after it made a frame.
C8_Witness ==
    /\ Len(rxlog) = 3
    /\ rxlog[1].len = HdrLen - 1
    /\ rxlog[1].dropped
    /\ rxlog[2].len = maxPacketSize
    /\ rxlog[3].ninj = 1
    /\ Len(injected[1].payload) > 0

(***************************************************************************)
(* C9.  Inbound ordering.                                                  *)
(***************************************************************************)
\* The call that injected the packet before the k-th (0 for the first).
PrevCall(k) == IF k = 1 THEN 0 ELSE injected[k - 1].call

\* C9: packets are injected in the order of their terminating transfers, and
\* the k-th packet is made of the transfers (those not dropped) that arrived
\* after the terminating transfer of packet k-1, up to its own.
C9_InboundOrder ==
    \A k \in DOMAIN injected :
        /\ PrevCall(k) < injected[k].call
        /\ injected[k].hdr \o injected[k].payload
              = JoinedKept(PrevCall(k) + 1, injected[k].call)
        /\ ~rxlog[injected[k].call].dropped

\* Two frames were injected, the second made of two transfers.
C9_Witness ==
    /\ Len(injected) = 2
    /\ injected[1].call = 1
    /\ injected[2].call = 3
    /\ rxlog[2].len = maxPacketSize
    /\ rxlog[3].len > 0

(***************************************************************************)
(* C10.  Outbound ordering.                                                *)
(***************************************************************************)
\* The ECMTx calls that returned data, in order.
Sent == SelectSeq(txlog, LAMBDA e : e.in # <<>>)

\* C10: the non-empty frames ECMTx returned are, one to one and in the same
\* order, the packets the stack queued: the i-th frame carries the i-th
\* queued packet's protocol (its low 16 bits) and payload, and the packets
\* not yet sent are the rest of the queue, in order.
C10_OutboundOrder ==
    /\ Len(Sent) <= Len(enqlog)
    /\ \A i \in DOMAIN Sent :
          /\ Sent[i].read = <<enqlog[i]>>
          /\ SubSeq(Sent[i].in, 13, 14)
                = <<(enqlog[i].proto % 65536) \div 256, enqlog[i].proto % 256>>
          /\ SubSeq(Sent[i].in, 15, Len(Sent[i].in)) = Flatten(enqlog[i].segs)
    /\ outq = SubSeq(enqlog, Len(Sent) + 1, Len(enqlog))

\* Two different packets were queued and both frames were returned.
C10_Witness ==
    /\ Len(Sent) = 2
    /\ Len(enqlog) = 2
    /\ Flatten(enqlog[1].segs) # Flatten(enqlog[2].segs)
    /\ Len(enqlog[1].segs) = 2

(***************************************************************************)
(* C11.  The bytes of a transmitted frame.                                 *)
(***************************************************************************)
RECURSIVE SlicesUpTo(_, _)
\* The first n slices of a packet joined, first slice first.
SlicesUpTo(segs, n) ==
    IF n = 0 THEN <<>> ELSE SlicesUpTo(segs, n - 1) \o segs[n]

\* The payload bytes of a packet.
PacketBytes(pkt) == SlicesUpTo(pkt.segs, Len(pkt.segs))

\* C11: for every dequeued packet ECMTx returns the 6 bytes of Host MAC, the
\* 6 bytes of Device MAC, the protocol number (its 16 bits) as two big-endian
\* bytes and then the payload slices in order: 14 bytes plus the payload.
C11_FrameBytes ==
    \A t \in DOMAIN txlog :
        txlog[t].read # <<>> =>
            LET pkt == txlog[t].read[1]
                f == txlog[t].in
                p16 == pkt.proto % 65536
            IN  /\ Len(f) = 14 + Len(PacketBytes(pkt))
                /\ SubSeq(f, 1, 6) = HostMAC
                /\ SubSeq(f, 7, 12) = DeviceMAC
                /\ f[13] = p16 \div 256
                /\ f[14] = p16 % 256
                /\ SubSeq(f, 15, Len(f)) = PacketBytes(pkt)

\* The frame of an IPv4 packet of two slices was returned.
C11_Witness ==
    \E t \in DOMAIN txlog :
        /\ txlog[t].read # <<>>
        /\ Len(txlog[t].read[1].segs) = 2
        /\ txlog[t].read[1].proto = ProtocolIPv4
        /\ Len(txlog[t].in) = 17

(***************************************************************************)
(* C12.  ECMTx returns nothing exactly when the queue is empty.            *)
(***************************************************************************)
\* C12: a call returns an empty result if and only if the outbound queue was
\* empty when it was called; it then read no packet, left the queue as it
\* was and returned a nil error, whatever lastErr it was given; a packet without payload still yields the 14 bytes of the header.
C12_EmptyIffNoPacket ==
    \A t \in DOMAIN txlog :
        /\ txlog[t].in = <<>> <=> txlog[t].qlen = 0
        /\ txlog[t].qlen = 0 =>
              /\ txlog[t].read = <<>>
              /\ txlog[t].qafter = txlog[t].qlen
              /\ txlog[t].err = NoError
        /\ (txlog[t].read # <<>> /\ txlog[t].read[1].segs = <<>>) =>
              Len(txlog[t].in) = 14

\* The frame of a packet without payload was returned, and the latest call
\* polled an empty queue after a transfer that failed.
C12_Witness ==
    LET n == Len(txlog) IN
    /\ n > 0
    /\ txlog[n].qlen = 0
    /\ txlog[n].in = <<>>
    /\ txlog[n].err = NoError
    /\ txLastErr # NoError
    /\ \E u \in DOMAIN txlog :
          /\ txlog[u].read # <<>>
          /\ txlog[u].read[1].segs = <<>>
          /\ Len(txlog[u].in) = 14

(***************************************************************************)
(* C13.  One dequeue, one frame.                                           *)
(***************************************************************************)
\* C13: each call takes at most one packet off the queue, the call that takes
\* a packet returns its whole frame, a call that takes none returns nothing,
\* and the non-empty frames returned are as many as the packets that left the
\* queue.
C13_OneFramePerDequeue ==
    /\ \A t \in DOMAIN txlog :
          /\ txlog[t].qlen - txlog[t].qafter \in {0, 1}
          /\ txlog[t].qlen - txlog[t].qafter = Len(txlog[t].read)
          /\ txlog[t].read # <<>> =>
                Len(txlog[t].in) = 14 + Len(PacketBytes(txlog[t].read[1]))
          /\ txlog[t].read = <<>> => txlog[t].in = <<>>
    /\ Cardinality({t \in DOMAIN txlog : txlog[t].in # <<>>})
          = Len(enqlog) - Len(outq)

\* Two packets were queued before the first poll; one frame has been
\* returned and one packet is still queued.
C13_Witness ==
    /\ Len(enqlog) = 2
    /\ Len(outq) = 1
    /\ Len(txlog) = 1
    /\ txlog[1].qlen = 2
    /\ txlog[1].in # <<>>

(***************************************************************************)
(* C14.  A failed transfer and the packet it carried.                      *)
(***************************************************************************)
\* C14: no outbound packet is lost to a failed poll: when the latest call was
\* told through lastErr that the previous transfer failed, and the call
\* before it had returned the frame of a packet, the latest call offers that
\* frame again.
C14_FailedOfferedAgain ==
    LET n == Len(txlog) IN
    (n >= 2 /\ txLastErr # NoError /\ txlog[n - 1].read # <<>>) =>
        /\ txlog[n].read = txlog[n - 1].read
        /\ txlog[n].in = txlog[n - 1].in

(***************************************************************************)
(* C16.  The error passed in as lastErr.                                   *)
(***************************************************************************)
\* C16: the error the latest ECMRx call and the latest ECMTx call returned is
\* the lastErr it was given.
C16_LastErrReturned ==
    /\ Len(rxlog) > 0 => rxlog[Len(rxlog)].ret.err = rxLastErr
    /\ Len(txlog) > 0 => txlog[Len(txlog)].err = txLastErr

(***************************************************************************)
(* C19.  What an ECMRx call returns and touches.                           *)
(***************************************************************************)
\* C19: every ECMRx call returns an empty result and a nil error, hands at
\* most one packet to the stack, and leaves the outbound queue, the MAC
\* addresses and maxPacketSize as they were.
C19_RxEffects ==
    [][rxlog' # rxlog =>
          /\ rxlog'[Len(rxlog')].ret = [in |-> <<>>, err |-> NoError]
          /\ Len(injected') - Len(injected) \in {0, 1}
          /\ SubSeq(injected', 1, Len(injected)) = injected
          /\ outq' = outq
          /\ enqlog' = enqlog
          /\ txlog' = txlog
          /\ HostMAC' = HostMAC
          /\ DeviceMAC' = DeviceMAC
          /\ maxPacketSize' = maxPacketSize]_vars

\* The latest ECMRx call was given an error as lastErr, handed a packet to
\* the stack and was made while a packet waited on the outbound queue.
C19_Witness ==
    /\ Len(rxlog) > 0
    /\ rxLastErr # NoError
    /\ rxlog[Len(rxlog)].ninj = 1
    /\ rxlog[Len(rxlog)].ret = [in |-> <<>>, err |-> NoError]
    /\ outq # <<>>

(***************************************************************************)
(* C20.  No call waits.                                                    *)
(***************************************************************************)
\* C20: a poll of ECMTx and a call of ECMRx with a transfer of any length and
\* any lastErr can be completed in every state, whatever the outbound queue holds and however
\* many packets the stack has been handed: ECMTx does not wait for a packet
\* and ECMRx does not wait for the stack.
C20_NeverWaits ==
    (~panicked /\ OpsUsed < MaxOps) =>
        /\ \A lastErr \in Errors : ENABLED Tx(lastErr)
        /\ \A len \in ChunkLens(maxPacketSize), lastErr \in Errors :
              ENABLED Rx(len, lastErr)

\* An empty queue was polled and the call returned nothing, after ECMRx had
\* handed a packet to the stack that nothing consumed.
C20_Witness ==
    /\ Len(injected) > 0
    /\ Len(txlog) > 0
    /\ txlog[Len(txlog)].qlen = 0
    /\ txlog[Len(txlog)].in = <<>>
    /\ Len(rxlog) > 0

(***************************************************************************)
(* C17.  A construction call that returns an error.                        *)
(***************************************************************************)
\* C17: NIC.Init on a NIC without link or with a MAC address that is not 6
\* bytes returns an error, installs no handler and adds no interface; and
\* Interface.Add given a MAC address that is not 6 bytes returns an error and
\* leaves the Interface without NIC, without link endpoint and without NIC
\* registered in the stack.
C17_FailedConstructionLeavesNothing ==
    /\ (pc = "done" /\ (~Link \/ Len(HostMAC) # 6 \/ Len(DeviceMAC) # 6)) =>
          /\ err # NoError
          /\ \A f \in DOMAIN handlers :
                handlers[f] \in {NilHandler, CustomHandler}
          /\ device = <<>>
    /\ (pc = "added" /\ err # NoError) =>
          /\ ~iface.NIC
          /\ ~iface.Link
          /\ iface.StackNICs = {}
          /\ device = <<>>

(***************************************************************************)
(* C21.  The endpoints a successful NIC.Init registers.                    *)
(***************************************************************************)
\* The endpoints of the device's interfaces, as <<interface, position>>.
EndpointSlots ==
    {<<i, e>> \in (DOMAIN device) \X (1..2) : e <= Len(device[i].Endpoints)}

\* The endpoint with the given address bound to the given function.
Bound(addr, attrs, fn) ==
    \E s \in EndpointSlots :
        LET ep == device[s[1]].Endpoints[s[2]]
        IN  /\ ep.EndpointAddress = addr
            /\ ep.Attributes = attrs
            /\ ep.Function = fn

\* The MaxPacketSize the endpoint with the given address advertises.
Advertised(addr) ==
    {device[s[1]].Endpoints[s[2]].MaxPacketSize :
        s \in {t \in EndpointSlots :
                 device[t[1]].Endpoints[t[2]].EndpointAddress = addr}}

Constructed == pc \in {"done", "added"} /\ err = NoError

\* C21: after a successful NIC.Init the device has exactly three endpoints:
\* bulk OUT 0x01 bound to Rx, bulk IN 0x81 bound to Tx and interrupt IN 0x82
\* bound to Control; the two bulk endpoints advertise one MaxPacketSize and
\* the NIC's maxPacketSize equals it.
C21_EndpointBinding ==
    Constructed =>
        /\ Cardinality(EndpointSlots) = 3
        /\ Bound(1, 2, handlers.Rx)
        /\ Bound(129, 2, handlers.Tx)
        /\ Bound(130, 3, handlers.Control)
        /\ Advertised(1) = {maxPacketSize}
        /\ Advertised(129) = {maxPacketSize}

\* NIC.Init succeeded on a NIC whose Rx the caller had set, MaxPacketSize
\* being the default.
C21_Witness ==
    /\ pc = "done"
    /\ err = NoError
    /\ handlers.Rx = CustomHandler
    /\ handlers.Tx = "ECMTx"
    /\ maxPacketSize = 512
    /\ Len(device) = 3

(***************************************************************************)
(* C30.  The handlers NIC.Init installs.                                   *)
(***************************************************************************)
\* C30: a successful NIC.Init sets Rx, Tx and Control to ECMRx, ECMTx and
\* ECMControl where the field was nil, leaves a handler the caller had set
\* as it was, and binds each endpoint to the handler the field then holds.
C30_HandlerDefaults ==
    [][(pc = "built" /\ pc' = "done" /\ err' = NoError) =>
          /\ handlers'.Rx =
                IF handlers.Rx = NilHandler THEN "ECMRx" ELSE handlers.Rx
          /\ handlers'.Tx =
                IF handlers.Tx = NilHandler THEN "ECMTx" ELSE handlers.Tx
          /\ handlers'.Control =
                IF handlers.Control = NilHandler THEN "ECMControl"
                ELSE handlers.Control
          /\ device'[3].Endpoints[2].Function = handlers'.Rx
          /\ device'[3].Endpoints[1].Function = handlers'.Tx
          /\ device'[1].Endpoints[1].Function = handlers'.Control]_vars

\* NIC.Init succeeded on a NIC whose Rx alone the caller had set: Rx is the
\* caller's and is bound to the bulk OUT endpoint, Tx and Control are the
\* NIC's own.
C30_Witness ==
    /\ pc = "done"
    /\ err = NoError
    /\ handlers = [Rx |-> CustomHandler, Tx |-> "ECMTx",
                   Control |-> "ECMControl"]
    /\ device[3].Endpoints[2].Function = CustomHandler

(***************************************************************************)
(* C22.  The configuration of a constructed NIC does not change.           *)
(***************************************************************************)
\* C22: no ECMRx, ECMTx or ECMControl call and no assignment to the package
\* variable MaxPacketSize changes HostMAC, DeviceMAC or the NIC's
\* maxPacketSize, and every ECMRx call that keeps its transfer holds the
\* frame back exactly when the transfer is maxPacketSize long, whatever the
\* package variable is by then.
C22_ConfigurationFixed ==
    [][/\ HostMAC' = HostMAC
       /\ DeviceMAC' = DeviceMAC
       /\ maxPacketSize' = maxPacketSize
       /\ rxlog' # rxlog =>
             LET e == rxlog'[Len(rxlog')]
             IN  ~e.dropped => (e.ninj = 0 <=> e.len = maxPacketSize)]_vars

\* MaxPacketSize was changed after construction; ECMRx held back a transfer
\* of the NIC's maxPacketSize and ECMTx returned a frame carrying both MACs.
C22_Witness ==
    /\ pkgMaxPacketSize # maxPacketSize
    /\ Len(rxlog) > 0
    /\ rxlog[Len(rxlog)].len = maxPacketSize
    /\ rxlog[Len(rxlog)].ninj = 0
    /\ buf # <<>>
    /\ \E t \in DOMAIN txlog :
          /\ txlog[t].in # <<>>
          /\ SubSeq(txlog[t].in, 1, 12) = HostMAC \o DeviceMAC

(***************************************************************************)
(* C23.  A transfer of exactly maxPacketSize bytes.                        *)
(***************************************************************************)
\* The record of the ECMRx call a step makes, and the transfer it was given.
NewCall == rxlog'[Len(rxlog')]
NewChunk == Chunk(Len(rxlog'), rxlog'[Len(rxlog')].len)

\* C23: a call whose transfer is maxPacketSize long and is not dropped
\* appends the bytes of the transfer to the buffer and injects nothing, also
\* when the buffer already holds transfers of that length.
C23_FullTransferPending ==
    [][(rxlog' # rxlog /\ NewCall.len = maxPacketSize /\ ~NewCall.dropped) =>
          /\ buf' = buf \o NewChunk
          /\ injected' = injected]_vars

\* Two transfers of maxPacketSize bytes in a row were kept and nothing was
\* injected.
C23_Witness ==
    /\ Len(rxlog) >= 2
    /\ rxlog[1].len = maxPacketSize
    /\ rxlog[2].len = maxPacketSize
    /\ ~rxlog[1].dropped
    /\ rxlog[2].post = 2 * maxPacketSize
    /\ Len(buf) >= 2 * maxPacketSize
    /\ injected = <<>>

(***************************************************************************)
(* C24.  The packet a completed frame gives.                               *)
(***************************************************************************)
\* C24: a call whose transfer is not maxPacketSize long and is not dropped
\* injects exactly one packet, made of B = the buffer followed by the
\* transfer: header B[0..13], protocol 256*B[12] + B[13], payload B[14..];
\* and it leaves the buffer empty.
C24_CompletedFrame ==
    [][(rxlog' # rxlog /\ NewCall.len # maxPacketSize /\ ~NewCall.dropped) =>
          LET B == buf \o NewChunk
          IN  /\ Len(B) >= 14
              /\ Len(injected') = Len(injected) + 1
              /\ SubSeq(injected', 1, Len(injected)) = injected
              /\ Bare(injected'[Len(injected')]) =
                    [hdr |-> SubSeq(B, 1, 14),
                     proto |-> 256 * B[13] + B[14],
                     payload |-> SubSeq(B, 15, Len(B))]
              /\ buf' = <<>>]_vars

\* A frame of a full transfer and a shorter one was injected as one packet.
C24_Witness ==
    /\ Len(rxlog) = 2
    /\ rxlog[1].len = maxPacketSize
    /\ rxlog[2].pre = maxPacketSize
    /\ rxlog[2].len = maxPacketSize - 1
    /\ Len(injected) = 1
    /\ Len(injected[1].payload) = 2 * maxPacketSize - 15
    /\ buf = <<>>

(***************************************************************************)
(* C25.  A short transfer while a frame is in progress.                    *)
(***************************************************************************)
\* C25: when the buffer is not empty a transfer shorter than 14 bytes, the
\* zero-length one included, is not dropped: it is appended, ends the frame,
\* and the frame is injected.
C25_ShortTransferInProgress ==
    [][(rxlog' # rxlog /\ buf # <<>> /\ NewCall.len < 14) =>
          /\ ~NewCall.dropped
          /\ NewCall.ninj = 1
          /\ Len(injected') = Len(injected) + 1
          /\ LET p == injected'[Len(injected')]
             IN  p.hdr \o p.payload = buf \o NewChunk
          /\ buf' = <<>>]_vars

\* A one-byte transfer ended the frame in progress and was injected with
\* it; the next one-byte transfer found the buffer empty and was dropped.
C25_Witness ==
    /\ Len(rxlog) = 3
    /\ rxlog[2].pre > 0
    /\ rxlog[2].len = 1
    /\ rxlog[2].ninj = 1
    /\ ~rxlog[2].dropped
    /\ rxlog[3].len = 1
    /\ rxlog[3].dropped
    /\ Len(injected) = 1
    /\ Len(injected[1].hdr) + Len(injected[1].payload) = maxPacketSize + 1

(***************************************************************************)
(* C26.  The length of the buffer between calls.                           *)
(***************************************************************************)
RECURSIVE PendingSince(_)
\* The first call of the run of calls up to call n that kept their transfer
\* and injected nothing; n + 1 when call n is not such a call.
PendingSince(n) ==
    IF n = 0 \/ rxlog[n].dropped \/ rxlog[n].ninj # 0 THEN n + 1
    ELSE IF PendingSince(n - 1) = n THEN n ELSE PendingSince(n - 1)

\* C26: between calls the buffer holds a whole number of transfers of
\* maxPacketSize bytes and nothing else: the transfers of the calls made
\* since the last injection or drop, each maxPacketSize long.
C26_BufferWholeTransfers ==
    LET n == Len(rxlog)
        first == PendingSince(n)
    IN  /\ \A k \in first..n : rxlog[k].len = maxPacketSize
        /\ buf = Joined(first, n)
        /\ Len(buf) = (n + 1 - first) * maxPacketSize

\* The buffer holds two transfers after a frame was injected.
C26_Witness ==
    /\ Len(rxlog) = 3
    /\ rxlog[1].ninj = 1
    /\ Len(buf) = 2 * maxPacketSize
    /\ maxPacketSize >= 14

(***************************************************************************)
(* C27.  No byte lost, duplicated or moved.                                *)
(***************************************************************************)
RECURSIVE InjectedBytes(_)
\* Header and payload of the first n injected packets, in injection order.
InjectedBytes(n) ==
    IF n = 0 THEN <<>>
    ELSE InjectedBytes(n - 1) \o injected[n].hdr \o injected[n].payload

RECURSIVE KeptBytes(_)
\* The transfers of the first n calls that were not dropped, in arrival
\* order.
KeptBytes(n) ==
    IF n = 0 THEN <<>>
    ELSE KeptBytes(n - 1) \o
         (IF rxlog[n].dropped THEN <<>> ELSE Chunk(n, rxlog[n].len))

\* C27: the injected frames in injection order followed by the buffer are
\* the transfers that were not dropped, in arrival order.
C27_ByteConservation ==
    InjectedBytes(Len(injected)) \o buf = KeptBytes(Len(rxlog))

\* A frame made of two transfers was injected and another transfer was
\* dropped.
C27_Witness ==
    /\ Len(injected) >= 1
    /\ \E k \in DOMAIN rxlog : rxlog[k].dropped
    /\ \E k \in DOMAIN rxlog : rxlog[k].pre > 0 /\ rxlog[k].ninj = 1

(***************************************************************************)
(* C28.  ECMRx and ECMTx interleaved.                                      *)
(***************************************************************************)
\* The transfers of the ECMRx calls that have returned, in order.
ReturnedChunks == [k \in 1..Len(rxlog) |-> CallChunk(k)]

\* The packets the ECMTx calls have read, in order, the one of the call in
\* progress last.
PacketsRead ==
    [i \in 1..Len(Sent) |-> Sent[i].read[1]] \o
    (IF txcall.at = "idle" THEN <<>> ELSE <<txcall.arg[1]>>)

\* C28: with the statements of an ECMRx call and of an ECMTx call
\* interleaved in any way, whenever no ECMRx call is in progress the buffer
\* and the injected packets are those of the ECMRx calls run one after the
\* other on their own, and every frame ECMTx returned is the one ECMTx run
\* on its own returns for the packet it read, the packets being read in the
\* order the stack queued them.
C28_InterleavingInvisible ==
    /\ rxcall.at = "idle" =>
          LET st == RxRun(RxEmpty, ReturnedChunks, maxPacketSize)
          IN  /\ buf = st.buf
              /\ BareSeq(injected) = st.inject
    /\ \A t \in DOMAIN txlog :
          txlog[t].in = ECMTx(txlog[t].read, HostMAC, DeviceMAC).in
    /\ PacketsRead \o outq = enqlog

\* An ECMRx call has injected its packet and not yet reset the buffer while
\* an ECMTx call has read a packet and not yet built its frame.
C28_Witness ==
    /\ rxcall.at = "reset"
    /\ txcall.at = "build"
    /\ Len(injected) = 1
    /\ Len(buf) > maxPacketSize
    /\ Len(rxlog) = 1

(***************************************************************************)
(* C29.  The protocol number in the header of a transmitted frame.         *)
(***************************************************************************)
\* C29: bytes 12 and 13 of every frame ECMTx returns, read as a big-endian
\* number, are the protocol number of the packet modulo 2^16: the number
\* itself when it is below 65536.
C29_ProtocolTruncated ==
    \A t \in DOMAIN txlog :
        txlog[t].read # <<>> =>
            LET number == txlog[t].read[1].proto
                decoded == 256 * txlog[t].in[13] + txlog[t].in[14]
            IN  /\ decoded = number % (2 ^ 16)
                /\ number < 65536 => decoded = number

\* A frame was returned for a packet of protocol 0x10800, carrying 0x0800,
\* and one for a packet of protocol 0x0800.
C29_Witness ==
    \E t, u \in DOMAIN txlog :
        /\ txlog[t].read # <<>>
        /\ txlog[t].read[1].proto = 67584
        /\ txlog[t].in[13] = 8
        /\ txlog[t].in[14] = 0
        /\ txlog[u].read # <<>>
        /\ txlog[u].read[1].proto = 2048
        /\ txlog[u].in[13] = 8

(***************************************************************************)
(* C31.  The NIC after an Interface.Add that returned no error.            *)
(***************************************************************************)
\* C31: when Interface.Add has returned without error, whether the caller
\* had set the NIC field or not, the Interface has a NIC whose Link is set
\* as the Interface's is, whose Rx, Tx and Control are not nil and are bound
\* to the endpoints of the device, and whose maxPacketSize equals
\* MaxPacketSize.
C31_AddedNICInitialised ==
    (pc \in {"added", "kept"} /\ err = NoError) =>
        /\ iface.NIC
        /\ iface.Link
        /\ Link
        /\ iface.StackNICs = {iface.NICID}
        /\ \A f \in DOMAIN handlers : handlers[f] # NilHandler
        /\ Bound(1, 2, handlers.Rx)
        /\ Bound(129, 2, handlers.Tx)
        /\ Bound(130, 3, handlers.Control)
        /\ maxPacketSize = pkgMaxPacketSize

(***************************************************************************)
(* C32.  No frame is filtered by its addresses or protocol.                *)
(***************************************************************************)
\* C32: every completed frame is injected, whatever its destination, its
\* source and its protocol number: the k-th call, given a frame of one
\* transfer, injects the k-th packet, whose header is the first 14 bytes of
\* the frame and whose protocol is the number in bytes 12 and 13.
C32_NoFiltering ==
    /\ Len(injected) = Len(rxlog)
    /\ \A k \in DOMAIN rxlog :
          /\ rxlog[k].ninj = 1
          /\ injected[k].call = k
          /\ injected[k].hdr = SubSeq(rxlog[k].out, 1, 14)
          /\ injected[k].proto = 256 * rxlog[k].out[13] + rxlog[k].out[14]
          /\ injected[k].payload = SubSeq(rxlog[k].out, 15, Len(rxlog[k].out))

\* Three frames were injected: one to the device from the host, one to the
\* broadcast address carrying ARP, one with the host's address as
\* destination and the device's as source.
C32_Witness ==
    /\ Len(injected) = 3
    /\ injected[1].hdr = DeviceMAC \o HostMAC \o <<8, 0>>
    /\ injected[2].hdr = Broadcast \o HostMAC \o <<8, 6>>
    /\ injected[2].proto = 2054
    /\ injected[3].hdr = HostMAC \o DeviceMAC \o <<8, 0>>

==========================================================================
